---- MODULE Spec2Model ----
(***************************************************************************)
(* Model of bge-data-server (src/src/main.rs): main() reads every listed   *)
(* file, tokenizes its prompts, drops the ones that fail or are too long,  *)
(* packs the rest greedily into zero-filled buffers of MAX_LEN token ids,  *)
(* appends each file's buffers to the dataset and then serves the dataset  *)
(* read-only over GET /len and GET /item?idx=n.                            *)
(*                                                                         *)
(* The tokenizer is external.  A prompt is represented by what the         *)
(* tokenizer does with it: it fails, or it yields a token sequence of a    *)
(* given length.  The token ids of prompt p of file f are chosen distinct  *)
(* from the ids of every other prompt and from the padding value 0, so     *)
(* that the content of a buffer tells which prompt each position holds.    *)
(***************************************************************************)
EXTENDS Integers, Sequences, FiniteSets

\* main.rs:17 sets MAX_LEN to 4096; the model scales it down.
MAX_LEN == 6
\* Most files the glob yields.
MaxFiles == 2
\* Most prompts over all files of one run.
MaxPrompts == 3

VARIABLES
    total,      \* paths.len()
    id,         \* index of the file the loop is at (0-based)
    pc,         \* "loop" | "pack" | "serving" | "aborted" | "panicked"
    tokens,     \* the accepted token sequences of the current file
    k,          \* position of the packer loop in tokens (1-based)
    padded,     \* the buffers of the current file
    start,      \* the packer's cursor
    dataset,    \* the dataset main() builds
    state,      \* AppState.dataset, what the handlers read
    resp,       \* the last response of the server
    files,      \* history: the prompts of every file read so far
    placed,     \* history: one record per copy_from_slice
    contrib,    \* history: number of buffers each file appended
    readError   \* history: a file could not be read or parsed

vars == <<total, id, pc, tokens, k, padded, start, dataset, state, resp,
          files, placed, contrib, readError>>

----------------------------------------------------------------------------
\* Helpers of the input enumeration

RECURSIVE SumSeq(_)
SumSeq(s) == IF s = <<>> THEN 0 ELSE Head(s) + SumSeq(Tail(s))

Lens(ss) == [i \in 1..Len(ss) |-> Len(ss[i])]

\* Number of prompts read so far, over all files.
Used == SumSeq(Lens(files))

----------------------------------------------------------------------------
\* Tokenizer (external): the outcomes it can have on one prompt

\* The lengths of the token sequences considered: two short ones, the largest
\* accepted (MAX_LEN - 1) and the two smallest rejected.  No sequence is
\* empty: DataItem::format (lines 30, 33) gives every prompt at least the
\* four bytes of its delimiters, polarity marker and terminator.
TokenLengths == {2, 5, MAX_LEN - 1, MAX_LEN, MAX_LEN + 1}

PromptOutcomes ==
    {[ok |-> FALSE, len |-> 0]} \cup {[ok |-> TRUE, len |-> n] : n \in TokenLengths}

Texts(n) == UNION {[1..m -> PromptOutcomes] : m \in 0..n}

\* The j-th token id of prompt p (0-based) of file f (0-based).  It is never
\* 0, the value buffers are padded with, and it fits the u16 of a buffer.
Tok(f, p, j) == ((f * MaxPrompts + p) * (MAX_LEN + 1)) + j

PromptKey(t) == (t - 1) \div (MAX_LEN + 1)
FileOf(t) == PromptKey(t) \div MaxPrompts
PromptOf(t) == PromptKey(t) % MaxPrompts

\* tokenizer.encode(prompt.as_bytes())
Encode(f, p, prompt) ==
    IF prompt.ok
    THEN [ok |-> TRUE, val |-> [j \in 1..prompt.len |-> Tok(f, p, j)]]
    ELSE [ok |-> FALSE, val |-> <<>>]

----------------------------------------------------------------------------
\* Encoder: main.rs:79-83

LenOkLe(data) == Len(data) <= MAX_LEN

\* .filter(|prompt| prompt.len() < MAX_LEN)
LenOk(data) == Len(data) < MAX_LEN

IsOk(e) == e.ok

FilterTokens(f, text) ==
    LET enc == [p \in 1..Len(text) |-> Encode(f, p - 1, text[p])]
        oks == SelectSeq(enc, IsOk)
        vals == [i \in 1..Len(oks) |-> oks[i].val]
    IN  SelectSeq(vals, LenOk)

----------------------------------------------------------------------------
\* Packer: main.rs:85-103

FitsLoose(end) == end <= MAX_LEN + 1

FitsStrict(end) == end < MAX_LEN

\* end <= MAX_LEN
Fits(end) == end <= MAX_LEN

NewBufferOnes == [i \in 1..MAX_LEN |-> 1]

NewBufferShort == [i \in 1..(MAX_LEN - 1) |-> 0]

\* vec![0u16; MAX_LEN]
NewBuffer == [i \in 1..MAX_LEN |-> 0]

CopyShifted(buffer, st, data) ==
    [i \in 1..Len(buffer) |->
        IF i > st + 1 /\ i <= st + Len(data) THEN data[i - st] ELSE buffer[i]]

\* buffer[start..end].copy_from_slice(&data)
CopyFromSlice(buffer, st, data) ==
    [i \in 1..Len(buffer) |->
        IF i > st /\ i <= st + Len(data) THEN data[i - st] ELSE buffer[i]]

ResetStartKeep(st) == st

\* start = 0 when a buffer is pushed
ResetStart(st) == 0

----------------------------------------------------------------------------
\* Corpus loader: main.rs:61-106

PrependDataset(ds, pd) == pd \o ds

\* dataset.append(&mut padded)
AppendDataset(ds, pd) == ds \o pd

ReadErrorSkips(i) == [pc |-> "loop", id |-> i + 1]

\* the ? of line 71 returns the error from main()
ReadErrorAborts(i) == [pc |-> "aborted", id |-> i]

----------------------------------------------------------------------------
\* Server: main.rs:115-143

NthOneBased(s, n) ==
    IF n >= 1 /\ n <= Len(s) THEN [some |-> TRUE, val |-> s[n]]
    ELSE [some |-> FALSE, val |-> <<>>]

\* state.dataset.iter().nth(query.idx)
Nth(s, n) ==
    IF n < Len(s) THEN [some |-> TRUE, val |-> s[n + 1]]
    ELSE [some |-> FALSE, val |-> <<>>]

Digits == <<"0", "1", "2", "3", "4", "5", "6", "7", "8", "9">>

\* usize::to_string
RECURSIVE ToString(_)
ToString(n) ==
    IF n < 10 THEN <<Digits[n + 1]>>
    ELSE Append(ToString(n \div 10), Digits[(n % 10) + 1])

NoResp == [req |-> "none", idx |-> 0, status |-> 0, text |-> <<>>, json |-> <<>>]

----------------------------------------------------------------------------
\* glob::glob(pattern) yields entries; the unreadable ones are filtered out
GlobResults == UNION {[1..m -> BOOLEAN] : m \in 0..MaxFiles}

IsTrue(b) == b

Init ==
    /\ \E globbed \in GlobResults : total = Len(SelectSeq(globbed, IsTrue))
    /\ id = 0
    /\ pc = "loop"
    /\ tokens = <<>>
    /\ k = 1
    /\ padded = <<>>
    /\ start = 0
    /\ dataset = <<>>
    /\ state = <<>>
    /\ resp = NoResp
    /\ files = <<>>
    /\ placed = <<>>
    /\ contrib = <<>>
    /\ readError = FALSE

\* Line 71 succeeds; lines 74-86 run: format, encode, filter, fresh packer state.
ReadFileOk ==
    /\ pc = "loop"
    /\ id < total
    /\ \E text \in Texts(MaxPrompts - Used) :
        /\ tokens' = FilterTokens(id, text)
        /\ files' = Append(files, text)
    /\ padded' = <<>>
    /\ start' = 0
    /\ k' = 1
    /\ pc' = "pack"
    /\ UNCHANGED <<total, id, dataset, state, resp, placed, contrib, readError>>

\* Line 71 fails: the file cannot be opened or a line does not parse.
ReadFileErr ==
    /\ pc = "loop"
    /\ id < total
    /\ pc' = ReadErrorAborts(id).pc
    /\ id' = ReadErrorAborts(id).id
    /\ readError' = TRUE
    /\ UNCHANGED <<total, tokens, k, padded, start, dataset, state, resp,
                   files, placed, contrib>>

\* One iteration of the loop of lines 87-103.
PackStep ==
    /\ pc = "pack"
    /\ k <= Len(tokens)
    /\ LET data == tokens[k]
           end0 == start + Len(data)
           reuse == padded # <<>> /\ Fits(end0)
           start1 == IF reuse THEN start ELSE ResetStart(start)
           padded1 == IF reuse THEN padded ELSE Append(padded, NewBuffer)
           b == Len(padded1)
           buffer == padded1[b]
           end == start1 + Len(data)
       IN  IF end > Len(buffer)
           THEN \* the slice buffer[start..end] is out of range
                /\ pc' = "panicked"
                /\ padded' = padded1
                /\ start' = start1
                /\ UNCHANGED <<k, placed>>
           ELSE LET buffer2 == CopyFromSlice(buffer, start1, data) IN
                /\ padded' = [padded1 EXCEPT ![b] = buffer2]
                /\ start' = end
                /\ placed' = Append(placed,
                                [file |-> id, seq |-> k, buf |-> b,
                                 gbuf |-> Len(dataset) + b,
                                 start |-> start1, data |-> data,
                                 pushed |-> ~reuse])
                /\ k' = k + 1
                \* assert_eq!(buffer.len(), MAX_LEN)
                /\ pc' = IF Len(buffer2) = MAX_LEN THEN "pack" ELSE "panicked"
    /\ UNCHANGED <<total, id, tokens, dataset, state, resp, files, contrib, readError>>

\* The packer loop is over: line 105, and the file loop advances.
AppendFile ==
    /\ pc = "pack"
    /\ k > Len(tokens)
    /\ dataset' = AppendDataset(dataset, padded)
    /\ contrib' = Append(contrib, Len(padded))
    /\ padded' = <<>>
    /\ id' = id + 1
    /\ pc' = "loop"
    /\ UNCHANGED <<total, tokens, k, start, state, resp, files, placed, readError>>

\* Lines 108-110 and 117-128: the file loop is over, the dataset moves into AppState.
StartServer ==
    /\ pc = "loop"
    /\ id = total
    /\ state' = dataset
    /\ pc' = "serving"
    /\ UNCHANGED <<total, id, tokens, k, padded, start, dataset, resp,
                   files, placed, contrib, readError>>

\* GET /len
DatasetLen ==
    /\ pc = "serving"
    /\ resp' = [req |-> "len", idx |-> 0, status |-> 200,
                text |-> ToString(Len(state)), json |-> <<>>]
    /\ UNCHANGED <<total, id, pc, tokens, k, padded, start, dataset, state,
                   files, placed, contrib, readError>>

\* GET /item?idx=n
DatasetItem ==
    /\ pc = "serving"
    /\ \E idx \in 0..(Len(state) + 1) :
        LET r == Nth(state, idx) IN
        resp' = IF r.some
                THEN [req |-> "item", idx |-> idx, status |-> 200,
                      text |-> <<>>, json |-> r.val]
                ELSE [req |-> "item", idx |-> idx, status |-> 404,
                      text |-> <<>>, json |-> <<>>]
    /\ UNCHANGED <<total, id, pc, tokens, k, padded, start, dataset, state,
                   files, placed, contrib, readError>>

Next ==
    \/ ReadFileOk
    \/ ReadFileErr
    \/ PackStep
    \/ AppendFile
    \/ StartServer
    \/ DatasetLen
    \/ DatasetItem

Spec == Init /\ [][Next]_vars

----------------------------------------------------------------------------
\* Definitions the properties are stated with

Range(s) == {s[i] : i \in 1..Len(s)}

RECURSIVE Concat(_)
Concat(ss) == IF ss = <<>> THEN <<>> ELSE Head(ss) \o Concat(Tail(ss))

Zeros(n) == [i \in 1..n |-> 0]

Max(S) == IF S = {} THEN 0 ELSE CHOOSE m \in S : \A x \in S : x <= m

\* Every buffer produced so far: the appended ones, then the current file's.
AllBuffers == dataset \o padded

LoopDone == pc = "pack" /\ k > Len(tokens)

\* Indices of the copies made into buffer g of AllBuffers.
CopiesInto(g) == {n \in 1..Len(placed) : placed[n].gbuf = g}

CopyEnd(n) == placed[n].start + Len(placed[n].data)

\* End of the last token sequence written into buffer g.
LastEnd(g) == Max({CopyEnd(n) : n \in CopiesInto(g)})

RECURSIVE SumOver(_, _)
SumOver(S, f) ==
    IF S = {} THEN 0
    ELSE LET x == CHOOSE y \in S : TRUE IN f[x] + SumOver(S \ {x}, f)

\* Total length of the token sequences copied into buffer g.
CopiedLen(g) == SumOver(CopiesInto(g), [n \in 1..Len(placed) |-> Len(placed[n].data)])

\* Number of token ids (non-padding positions) a buffer holds.
Fill(buf) == Cardinality({p \in 1..Len(buf) : buf[p] # 0})

CeilDiv(a, b) == (a + b - 1) \div b

\* Prompt p (1-based) of file f (1-based) is one the spec says is kept.
Kept(f, p) == files[f][p].ok /\ files[f][p].len < MAX_LEN

KeptOf(f) == {p \in 1..Len(files[f]) : Kept(f, p)}

\* The token sequence of prompt p of file f.
SeqOf(f, p) == [j \in 1..files[f][p].len |-> Tok(f - 1, p - 1, j)]

IsToken(t) == t # 0

\* The token ids of a run of buffers, in order, padding removed.
TokensIn(bufs) == SelectSeq(Concat(bufs), IsToken)

RECURSIVE KeptTokens(_, _)
\* The token ids of the kept prompts p..Len(files[f]) of file f, in prompt order.
KeptTokens(f, p) ==
    IF p > Len(files[f]) THEN <<>>
    ELSE (IF Kept(f, p) THEN SeqOf(f, p) ELSE <<>>) \o KeptTokens(f, p + 1)

\* Number of buffers the files before f contributed.
Offset(f) == SumSeq(SubSeq(contrib, 1, f - 1))

\* The buffers file f contributed to the dataset.
Segment(f) == SubSeq(dataset, Offset(f) + 1, Offset(f) + contrib[f])

----------------------------------------------------------------------------
\* C1: Packing never splits a sequence.  When the packer loop of a file has
\* finished, every accepted token sequence s of the file lies in one
\* contiguous range [st, st+L) of one buffer of the file, within the buffer's
\* MAX_LEN positions, and no token id of s is at any other position of any
\* buffer of the file.
C1_NeverSplit ==
    LoopDone =>
        \A i \in 1..Len(tokens) :
            LET s == tokens[i] IN
            \E b \in 1..Len(padded) : \E st \in 0..(MAX_LEN - Len(s)) :
                /\ st + Len(s) <= Len(padded[b])
                /\ \A j \in 1..Len(s) : padded[b][st + j] = s[j]
                /\ \A b2 \in 1..Len(padded) : \A p \in 1..Len(padded[b2]) :
                       padded[b2][p] \in Range(s) =>
                           b2 = b /\ p > st /\ p <= st + Len(s)

\* Three sequences of positive length were packed into two buffers.
C1_Witness ==
    /\ LoopDone
    /\ Len(tokens) = 3
    /\ \A i \in 1..3 : Len(tokens[i]) > 0
    /\ Len(padded) = 2

\* C2: No overflow.  In every state the cursor is within the buffer, no copy
\* was refused for going past the buffer's end, every copy made satisfies
\* start + L <= MAX_LEN, the ranges copied into one buffer are pairwise
\* disjoint, and the lengths of the sequences copied into one buffer sum to
\* at most MAX_LEN.
C2_NoOverflow ==
    /\ pc # "panicked"
    /\ start <= MAX_LEN
    /\ \A n \in 1..Len(placed) : CopyEnd(n) <= MAX_LEN
    /\ \A n, m \in 1..Len(placed) :
           (n < m /\ placed[n].gbuf = placed[m].gbuf) =>
               CopyEnd(n) <= placed[m].start
    /\ \A g \in 1..Len(AllBuffers) : CopiedLen(g) <= MAX_LEN

\* A buffer was filled to exactly MAX_LEN by more than one sequence.
C2_Witness ==
    \E g \in 1..Len(AllBuffers) :
        /\ Cardinality(CopiesInto(g)) >= 2
        /\ CopiedLen(g) = MAX_LEN
        /\ Fill(AllBuffers[g]) = MAX_LEN

\* C3: Padding correctness.  In every buffer produced, and in every buffer
\* of the dataset the server holds, each position at or beyond the end of the
\* last token sequence written into the buffer holds 0.
C3_Padding ==
    /\ \A g \in 1..Len(AllBuffers) :
           \A p \in (LastEnd(g) + 1)..Len(AllBuffers[g]) : AllBuffers[g][p] = 0
    /\ pc = "serving" =>
           \A g \in 1..Len(state) :
               \A p \in (LastEnd(g) + 1)..Len(state[g]) : state[g][p] = 0

\* The served dataset has a buffer with padding that is not its last buffer.
C3_Witness ==
    /\ pc = "serving"
    /\ Len(state) >= 2
    /\ LastEnd(1) > 0
    /\ LastEnd(1) < MAX_LEN
    /\ state[1][MAX_LEN] = 0

\* C4: Buffer length invariant.  Every buffer has exactly MAX_LEN positions,
\* when it is created and after every copy into it, and the assertion at the
\* end of a packer step never fails.
C4_BufferLen ==
    /\ pc # "panicked"
    /\ \A g \in 1..Len(AllBuffers) : Len(AllBuffers[g]) = MAX_LEN
    /\ \A g \in 1..Len(state) : Len(state[g]) = MAX_LEN

\* A buffer has taken a second copy, after the one that created it.
C4_Witness ==
    /\ pc = "pack"
    /\ padded # <<>>
    /\ Cardinality(CopiesInto(Len(AllBuffers))) >= 2
    /\ Len(padded[Len(padded)]) = MAX_LEN

\* C5 as stated: the number of buffers of a file is at most
\* ceil(sum of the accepted lengths / MAX_LEN).
C5_CeilUpperBound ==
    LoopDone => Len(padded) <= CeilDiv(SumSeq(Lens(tokens)), MAX_LEN)

\* C5, amended: with S the sum of the accepted lengths and n the number of
\* buffers of a file, ceil(S / MAX_LEN) <= n <= number of accepted sequences,
\* any two consecutive buffers together hold more than MAX_LEN token ids, and
\* so n <= 2 * floor(S / MAX_LEN) + 1 when the file has an accepted sequence.
C5_BufferCount ==
    LoopDone =>
        LET S == SumSeq(Lens(tokens))
            n == Len(padded)
        IN  /\ CeilDiv(S, MAX_LEN) <= n
            /\ n <= Len(tokens)
            /\ (tokens = <<>>) <=> (n = 0)
            /\ \A b \in 1..(n - 1) : Fill(padded[b]) + Fill(padded[b + 1]) > MAX_LEN
            /\ tokens # <<>> => n <= 2 * (S \div MAX_LEN) + 1

\* Three buffers were needed although the lengths sum to at most 2 * MAX_LEN.
C5_Witness ==
    /\ LoopDone
    /\ Len(padded) = 3
    /\ SumSeq(Lens(tokens)) <= 2 * MAX_LEN
    /\ CeilDiv(SumSeq(Lens(tokens)), MAX_LEN) = 2

\* Token id t is at some position of some buffer of bufs.
Holds(bufs, t) == \E g \in 1..Len(bufs) : t \in Range(bufs[g])

\* C6: Filter correctness.  While a file is packed, its token sequences are
\* exactly those of its prompts that encode with a length < MAX_LEN; every
\* token id in any buffer, built or served, belongs to such a prompt, so a
\* prompt that fails or has length >= MAX_LEN leaves no token anywhere; and
\* once a file is appended every token of each of its kept prompts is in the
\* dataset, whatever prompts were dropped before or after it.
C6_Filter ==
    /\ pc = "pack" =>
           /\ Len(files) = id + 1
           /\ Len(tokens) = Cardinality(KeptOf(id + 1))
           /\ \A p \in KeptOf(id + 1) :
                  \E i \in 1..Len(tokens) : tokens[i] = SeqOf(id + 1, p)
    /\ \A g \in 1..Len(AllBuffers) : \A t \in Range(AllBuffers[g]) :
           t # 0 =>
               /\ FileOf(t) + 1 <= Len(files)
               /\ PromptOf(t) + 1 <= Len(files[FileOf(t) + 1])
               /\ Kept(FileOf(t) + 1, PromptOf(t) + 1)
    /\ \A f \in 1..Len(contrib) : \A p \in KeptOf(f) :
           \A t \in Range(SeqOf(f, p)) : Holds(dataset, t)
    /\ pc = "serving" => state = dataset

\* A file was appended in which a failed prompt and a prompt of exactly
\* MAX_LEN tokens came before a kept prompt.
C6_Witness ==
    \E f \in 1..Len(contrib) :
        /\ Len(files[f]) = 3
        /\ ~files[f][1].ok
        /\ files[f][2].ok /\ files[f][2].len = MAX_LEN
        /\ Kept(f, 3)
        /\ Holds(dataset, Tok(f - 1, 2, 1))

\* C7: Fatal ingestion error.  Once a file could not be read or parsed the
\* run is aborted: the server is not started and has answered nothing.  When
\* the server runs, no read failed, every listed file was read, packed and
\* appended, and the server holds the dataset with every kept token in it.
C7_FatalIngestion ==
    /\ readError => (pc = "aborted" /\ state = <<>> /\ resp = NoResp)
    /\ (pc = "serving" \/ resp # NoResp) =>
           /\ ~readError
           /\ id = total
           /\ Len(files) = total
           /\ Len(contrib) = total
           /\ state = dataset
           /\ \A f \in 1..total : \A p \in KeptOf(f) :
                  \A t \in Range(SeqOf(f, p)) : Holds(state, t)

\* The run was aborted by a later file after buffers had been appended.
C7_Witness ==
    /\ pc = "aborted"
    /\ readError
    /\ Len(dataset) > 0
    /\ id < total

DigitValue(c) == CHOOSE d \in 0..9 : Digits[d + 1] = c

RECURSIVE ParseDecimal(_)
ParseDecimal(str) ==
    IF str = <<>> THEN 0
    ELSE ParseDecimal(SubSeq(str, 1, Len(str) - 1)) * 10 + DigitValue(str[Len(str)])

\* C8: Index lookup.  With N the number of buffers of the dataset: /len
\* answers N in decimal ("0" for the empty dataset); /item?idx=n answers the
\* buffer at zero-based position n when n < N and not-found when n >= N.  The
\* server keeps running after any request and the dataset it holds stays the
\* one that was built.
C8_IndexLookup ==
    /\ resp # NoResp => (pc = "serving" /\ state = dataset)
    /\ resp.req = "len" =>
           /\ resp.status = 200
           /\ resp.text # <<>>
           /\ ParseDecimal(resp.text) = Len(state)
           /\ Len(state) = 0 => resp.text = <<"0">>
    /\ resp.req = "item" =>
           IF resp.idx < Len(state)
           THEN resp.status = 200 /\ resp.json = state[resp.idx + 1]
           ELSE resp.status = 404 /\ resp.json = <<>>

\* The last buffer of a dataset of several buffers was requested and found.
C8_Witness ==
    /\ resp.req = "item"
    /\ Len(state) >= 2
    /\ resp.idx = Len(state) - 1
    /\ resp.status = 200
    /\ resp.json = state[Len(state)]

\* C9: Per-file concatenation.  The dataset is the files' contributions in
\* listing order: its length is the sum of the contributions, the buffers
\* file f contributed hold token ids of file f only, namely the tokens of its
\* kept prompts in prompt order, its first buffer starts with its first kept
\* sequence at offset 0, and a file contributes no buffer exactly when it has
\* no kept prompt.
C9_Concatenation ==
    /\ Len(contrib) <= Len(files)
    /\ pc \in {"loop", "serving"} => Len(contrib) = id
    /\ Len(dataset) = SumSeq(contrib)
    /\ \A f \in 1..Len(contrib) :
           /\ \A t \in Range(TokensIn(Segment(f))) : FileOf(t) = f - 1
           /\ TokensIn(Segment(f)) = KeptTokens(f, 1)
           /\ (contrib[f] = 0) <=> (KeptOf(f) = {})
           /\ contrib[f] > 0 =>
                  Segment(f)[1][1] = KeptTokens(f, 1)[1]

\* Two files both contributed buffers, the first one leaving padding.
C9_Witness ==
    /\ Len(contrib) = 2
    /\ contrib[1] >= 1
    /\ contrib[2] >= 1
    /\ Fill(dataset[contrib[1]]) < MAX_LEN
    /\ FileOf(dataset[Len(dataset)][1]) = 1

\* C10: Greedy first-fit-append rule.  The first copy of a file opens a
\* buffer; a later copy of length L opens a buffer if and only if the cursor
\* plus L exceeds MAX_LEN; a copy that opens a buffer goes to offset 0 of the
\* next buffer, any other to the cursor in the same buffer; the cursor is the
\* end of the last copy into the current buffer.  Hence sequences of
\* combined length <= MAX_LEN give one buffer holding them in order followed
\* by zeros, and a sequence of length MAX_LEN - 1 followed by one of length 5
\* gives two buffers, each holding one of them at offset 0.
C10_Greedy ==
    /\ \A n \in 1..Len(placed) :
           LET r == placed[n]
               first == n = 1 \/ placed[n - 1].file # r.file
           IN  /\ first => (r.pushed /\ r.buf = 1)
               /\ ~first =>
                      /\ r.pushed <=> (CopyEnd(n - 1) + Len(r.data) > MAX_LEN)
                      /\ r.buf = placed[n - 1].buf + (IF r.pushed THEN 1 ELSE 0)
               /\ r.start = IF r.pushed THEN 0 ELSE CopyEnd(n - 1)
    /\ padded # <<>> =>
           /\ placed # <<>>
           /\ start = LastEnd(Len(AllBuffers))
           /\ pc = "pack" => placed[Len(placed)].buf = Len(padded)
    /\ (pc = "pack" /\ padded = <<>>) => (start = 0 /\ k = 1)
    /\ (LoopDone /\ tokens # <<>> /\ SumSeq(Lens(tokens)) <= MAX_LEN) =>
           padded = <<Concat(tokens) \o Zeros(MAX_LEN - SumSeq(Lens(tokens)))>>
    /\ (LoopDone /\ Lens(tokens) = <<MAX_LEN - 1, 5>>) =>
           padded = <<tokens[1] \o Zeros(1), tokens[2] \o Zeros(MAX_LEN - 5)>>

\* The packer finished the sequences of lengths MAX_LEN - 1 and 5.
C10_Witness ==
    /\ LoopDone
    /\ Lens(tokens) = <<MAX_LEN - 1, 5>>
    /\ Len(padded) = 2
    /\ placed[Len(placed)].pushed
    /\ start = 5

====
